---- MODULE Spec2Model ----
(***************************************************************************)
(* Model of accuknox/examples, prompt-firewall:                            *)
(*   firewall_util.py  the wrappers initialize_firewall_client,            *)
(*                     get_sanitized_prompt and get_sanitized_response     *)
(*                     around the process-wide _firewall_client;           *)
(*   app.py            the stand-alone script: scan prompt, completion,    *)
(*                     scan response, print.                               *)
(* Python values are modelled as strings: None is the string "<None>", a   *)
(* key that a dict does not hold has the value "<missing>".  The remote    *)
(* scanning service and the completion service are the environment: each   *)
(* of their calls either raises or returns a value drawn from a small set. *)
(***************************************************************************)
EXTENDS Naturals, Sequences, FiniteSets, TLC

VARIABLES
    ENABLE_ACCUKNOX_FIREWALL,   \* firewall_util.py configuration flag
    STRICT_MODE,                \* firewall_util.py configuration flag
    firewall_client,            \* firewall_util.py module global _firewall_client
    call,                       \* the current (pending) or last (finished) call of firewall_util
    accuknox_enable,            \* app.py flag
    accuknox_client,            \* app.py module global
    app_pc,                     \* app.py: position of the script
    sanitized_prompt,           \* app.py variable
    session_id,                 \* app.py variable
    response,                   \* app.py variable (response.choices[0].message.content)
    sanitized_resp,             \* app.py variable
    app_log                     \* app.py: what left the script (remote calls, final output)

lib_vars == <<ENABLE_ACCUKNOX_FIREWALL, STRICT_MODE, firewall_client, call>>

app_vars == <<accuknox_enable, accuknox_client, app_pc, sanitized_prompt, session_id,
              response, sanitized_resp, app_log>>

vars == <<lib_vars, app_vars>>

---------------------------------------------------------------------------
(* Python values *)

None == "<None>"

Missing == "<missing>"

NA == "<n/a>"

STATIC_RESPONSE == "Your prompt violated our safety policies. Please rephrase."

\* truth value of an Optional[str]: None and "" are falsy
Truthy(s) == s # None /\ s # ""

\* k in d
Has(d, k) == d[k] # Missing

\* d.get(k)
Get(d, k) == IF d[k] = Missing THEN None ELSE d[k]

---------------------------------------------------------------------------
(* Input sets *)

Prompts == {"", "hello"}

Responses == {"", "answer"}

SessionArgs == {None, "s0"}

Users == {"", "alice"}

\* what os.getenv("ACCUKNOX_API_KEY") can return: unset, empty, a key
EnvKeys == {None, "", "key1"}

\* the payloads the scanning service can return (a JSON object)
Payloads ==
    [error             : {Missing, None, "boom"},
     query_status      : {Missing, "BLOCK", "PASS", "MONITOR", "UNCHECKED", "block"},
     sanitized_content : {Missing, "", "clean"},
     session_id        : {Missing, None, "s1"},
     risk_score        : {Missing, "{}"}]

EmptyPayload ==
    [error |-> Missing, query_status |-> Missing, sanitized_content |-> Missing,
     session_id |-> Missing, risk_score |-> Missing]

\* the outcomes of one remote scan call: it raises, or it returns a payload
RemoteOutcomes ==
    {[kind |-> "raise", d |-> EmptyPayload]} \cup {[kind |-> "dict", d |-> d] : d \in Payloads}

NoRemote == [kind |-> "none", d |-> EmptyPayload]

---------------------------------------------------------------------------
(* firewall_util.py *)

ScanResult(sc, sid, b, fb) ==
    [sanitized_content |-> sc, session_id |-> sid, block |-> b, fallback_response |-> fb]

NoResult == ScanResult(NA, NA, FALSE, NA)

NoClient == [live |-> FALSE, api_key |-> None, user_info |-> None]

LLMDefenseClient(key, user) == [live |-> TRUE, api_key |-> key, user_info |-> user]

Return(r) == [status |-> "returned", result |-> r]

Raise == [status |-> "raised", result |-> NoResult]

\* initialize_firewall_client raising before it has reset the handle
initialize_firewall_client_RaiseFirst(user, key) ==
    IF ~ENABLE_ACCUKNOX_FIREWALL
    THEN [client |-> NoClient, raised |-> FALSE]
    ELSE IF Truthy(key)
         THEN [client |-> LLMDefenseClient(key, user), raised |-> FALSE]
         ELSE [client |-> IF STRICT_MODE THEN firewall_client ELSE NoClient,
               raised |-> STRICT_MODE]

\* initialize_firewall_client keeping the user of a handle that already exists
initialize_firewall_client_Merge(user, key) ==
    IF ~ENABLE_ACCUKNOX_FIREWALL
    THEN [client |-> NoClient, raised |-> FALSE]
    ELSE IF Truthy(key)
         THEN [client |-> LLMDefenseClient(key, IF firewall_client.live
                                                THEN firewall_client.user_info ELSE user),
               raised |-> FALSE]
         ELSE [client |-> NoClient, raised |-> STRICT_MODE]

\* initialize_firewall_client(user), with key what os.getenv returns:
\* the new value of _firewall_client and whether RuntimeError is raised
initialize_firewall_client(user, key) ==
    IF ~ENABLE_ACCUKNOX_FIREWALL
    THEN [client |-> NoClient, raised |-> FALSE]
    ELSE IF Truthy(key)
         THEN [client |-> LLMDefenseClient(key, user), raised |-> FALSE]
         ELSE [client |-> NoClient, raised |-> STRICT_MODE]

\* get_sanitized_prompt without a client, failing open whatever STRICT_MODE says
PromptWithoutClient_FailOpen(prompt) ==
    Return(ScanResult(prompt, None, FALSE, ""))

\* get_sanitized_prompt, the branch taken when _firewall_client is not set
PromptWithoutClient(prompt) ==
    IF STRICT_MODE
    THEN Return(ScanResult(prompt, None, TRUE, ""))
    ELSE Return(ScanResult(prompt, None, FALSE, ""))

\* get_sanitized_prompt handing the remote's text to the user on BLOCK
PromptAfterScan_RemoteFallback(prompt, remote) ==
    IF remote.kind = "raise"
    THEN Raise
    ELSE IF Has(remote.d, "error")
         THEN IF STRICT_MODE
              THEN Return(ScanResult(prompt, None, TRUE, ""))
              ELSE Return(ScanResult(prompt, None, FALSE, ""))
         ELSE IF Get(remote.d, "query_status") = "BLOCK"
              THEN Return(ScanResult(Get(remote.d, "sanitized_content"),
                                     Get(remote.d, "session_id"), TRUE,
                                     Get(remote.d, "sanitized_content")))
              ELSE Return(ScanResult(Get(remote.d, "sanitized_content"),
                                     Get(remote.d, "session_id"), FALSE, ""))

\* get_sanitized_prompt letting only the known statuses through
PromptAfterScan_KnownOnly(prompt, remote) ==
    IF remote.kind = "raise"
    THEN Raise
    ELSE IF Has(remote.d, "error")
         THEN IF STRICT_MODE
              THEN Return(ScanResult(prompt, None, TRUE, ""))
              ELSE Return(ScanResult(prompt, None, FALSE, ""))
         ELSE IF Get(remote.d, "query_status") \notin {"PASS", "MONITOR", "UNCHECKED"}
              THEN Return(ScanResult(Get(remote.d, "sanitized_content"),
                                     Get(remote.d, "session_id"), TRUE, STATIC_RESPONSE))
              ELSE Return(ScanResult(Get(remote.d, "sanitized_content"),
                                     Get(remote.d, "session_id"), FALSE, ""))

\* get_sanitized_prompt returning no content when it blocks on a scan error
PromptAfterScan_EmptyOnError(prompt, remote) ==
    IF remote.kind = "raise"
    THEN Raise
    ELSE IF Has(remote.d, "error")
         THEN IF STRICT_MODE
              THEN Return(ScanResult("", None, TRUE, ""))
              ELSE Return(ScanResult(prompt, None, FALSE, ""))
         ELSE IF Get(remote.d, "query_status") = "BLOCK"
              THEN Return(ScanResult(Get(remote.d, "sanitized_content"),
                                     Get(remote.d, "session_id"), TRUE, STATIC_RESPONSE))
              ELSE Return(ScanResult(Get(remote.d, "sanitized_content"),
                                     Get(remote.d, "session_id"), FALSE, ""))

\* get_sanitized_prompt, the rest of the function once scan_prompt has come back
\* (no try/except surrounds the call: what it raises leaves the function)
PromptAfterScan(prompt, remote) ==
    IF remote.kind = "raise"
    THEN Raise
    ELSE IF Has(remote.d, "error")
         THEN IF STRICT_MODE
              THEN Return(ScanResult(prompt, None, TRUE, ""))
              ELSE Return(ScanResult(prompt, None, FALSE, ""))
         ELSE IF Get(remote.d, "query_status") = "BLOCK"
              THEN Return(ScanResult(Get(remote.d, "sanitized_content"),
                                     Get(remote.d, "session_id"), TRUE, STATIC_RESPONSE))
              ELSE Return(ScanResult(Get(remote.d, "sanitized_content"),
                                     Get(remote.d, "session_id"), FALSE, ""))

\* get_sanitized_response, the branch taken when _firewall_client is not set
ResponseWithoutClient(resp, sid) ==
    IF STRICT_MODE
    THEN Return(ScanResult(resp, sid, TRUE, ""))
    ELSE Return(ScanResult(resp, sid, FALSE, ""))

\* get_sanitized_response taking the session id from the remote response, as
\* get_sanitized_prompt does
ResponseAfterScan_RemoteSession(resp, sid, remote) ==
    IF remote.kind = "raise"
    THEN Raise
    ELSE IF Has(remote.d, "error")
         THEN IF STRICT_MODE
              THEN Return(ScanResult(resp, None, TRUE, ""))
              ELSE Return(ScanResult(resp, None, FALSE, ""))
         ELSE IF Get(remote.d, "query_status") = "BLOCK"
              THEN Return(ScanResult(Get(remote.d, "sanitized_content"),
                                     Get(remote.d, "session_id"), TRUE, STATIC_RESPONSE))
              ELSE Return(ScanResult(Get(remote.d, "sanitized_content"),
                                     Get(remote.d, "session_id"), FALSE, ""))

\* get_sanitized_response, the rest of the function once scan_response has come back
ResponseAfterScan(resp, sid, remote) ==
    IF remote.kind = "raise"
    THEN Raise
    ELSE IF Has(remote.d, "error")
         THEN IF STRICT_MODE
              THEN Return(ScanResult(resp, sid, TRUE, ""))
              ELSE Return(ScanResult(resp, sid, FALSE, ""))
         ELSE IF Get(remote.d, "query_status") = "BLOCK"
              THEN Return(ScanResult(Get(remote.d, "sanitized_content"), sid, TRUE,
                                     STATIC_RESPONSE))
              ELSE Return(ScanResult(Get(remote.d, "sanitized_content"), sid, FALSE, ""))

\* one remote call as the scanning client receives it
ScanCall(method, content, prompt, sid) ==
    [method |-> method, content |-> content, prompt |-> prompt, session_id |-> sid]

\* the record of a call of firewall_util: its arguments, the handle it found, the
\* remote calls it made, what the remote answered and how the call ended
CallRecord(op, prompt, resp, sid, user, key, before, scans, remote, end) ==
    [op |-> op, prompt |-> prompt, response |-> resp, session_id |-> sid, user |-> user,
     key |-> key, before |-> before, scans |-> scans, remote |-> remote,
     status |-> end.status, result |-> end.result]

Pending == [status |-> "pending", result |-> NoResult]

NoCall == CallRecord("none", NA, NA, NA, NA, NA, NoClient, <<>>, NoRemote,
                     [status |-> "none", result |-> NoResult])

Idle == call.status # "pending"

LibInit ==
    /\ ENABLE_ACCUKNOX_FIREWALL \in BOOLEAN
    /\ STRICT_MODE \in BOOLEAN
    /\ firewall_client = NoClient
    /\ call = NoCall

InitializeFirewallClient ==
    /\ Idle
    /\ \E user \in Users, key \in EnvKeys :
          LET r == initialize_firewall_client(user, key) IN
          /\ firewall_client' = r.client
          /\ call' = CallRecord("initialize_firewall_client", NA, NA, NA, user, key,
                                firewall_client, <<>>, NoRemote,
                                IF r.raised THEN Raise ELSE Return(NoResult))
    /\ UNCHANGED <<ENABLE_ACCUKNOX_FIREWALL, STRICT_MODE, app_vars>>

\* get_sanitized_prompt up to the remote call, or to its return when no client is set
GetSanitizedPrompt ==
    /\ Idle
    /\ \E prompt \in Prompts :
          call' = IF firewall_client.live
                  THEN CallRecord("get_sanitized_prompt", prompt, NA, NA, NA, NA,
                                  firewall_client,
                                  <<ScanCall("scan_prompt", prompt, NA, NA)>>,
                                  NoRemote, Pending)
                  ELSE CallRecord("get_sanitized_prompt", prompt, NA, NA, NA, NA,
                                  firewall_client, <<>>, NoRemote,
                                  PromptWithoutClient(prompt))
    /\ UNCHANGED <<ENABLE_ACCUKNOX_FIREWALL, STRICT_MODE, firewall_client, app_vars>>

\* scan_prompt comes back and get_sanitized_prompt runs to its end
ScanPromptReturns ==
    /\ call.status = "pending"
    /\ call.op = "get_sanitized_prompt"
    /\ \E remote \in RemoteOutcomes :
          LET end == PromptAfterScan(call.prompt, remote) IN
          call' = [call EXCEPT !.remote = remote, !.status = end.status,
                               !.result = end.result]
    /\ UNCHANGED <<ENABLE_ACCUKNOX_FIREWALL, STRICT_MODE, firewall_client, app_vars>>

\* get_sanitized_response up to the remote call, or to its return when no client is set
GetSanitizedResponse ==
    /\ Idle
    /\ \E prompt \in Prompts, resp \in Responses, sid \in SessionArgs :
          call' = IF firewall_client.live
                  THEN CallRecord("get_sanitized_response", prompt, resp, sid, NA, NA,
                                  firewall_client,
                                  <<ScanCall("scan_response", resp, prompt, sid)>>,
                                  NoRemote, Pending)
                  ELSE CallRecord("get_sanitized_response", prompt, resp, sid, NA, NA,
                                  firewall_client, <<>>, NoRemote,
                                  ResponseWithoutClient(resp, sid))
    /\ UNCHANGED <<ENABLE_ACCUKNOX_FIREWALL, STRICT_MODE, firewall_client, app_vars>>

\* scan_response comes back and get_sanitized_response runs to its end
ScanResponseReturns ==
    /\ call.status = "pending"
    /\ call.op = "get_sanitized_response"
    /\ \E remote \in RemoteOutcomes :
          LET end == ResponseAfterScan(call.response, call.session_id, remote) IN
          call' = [call EXCEPT !.remote = remote, !.status = end.status,
                               !.result = end.result]
    /\ UNCHANGED <<ENABLE_ACCUKNOX_FIREWALL, STRICT_MODE, firewall_client, app_vars>>

---------------------------------------------------------------------------
(* app.py *)

app_prompt == "Github user nyrahul. Provide a rating ..."

\* what os.environ can hold for ACCUKNOX_API_KEY: nothing, an empty string, a key
AppEnvKeys == {Missing, "", "key1"}

\* what completion() can do: raise, or return a message content
CompletionOutcomes == {"<raise>", None, "answer"}

NoLog == [scan_prompt |-> NoRemote, completion |-> <<>>, scan_response |-> NoRemote,
          output |-> <<>>]

Printed(what, text) == [what |-> what, text |-> text]

AppStart ==
    /\ accuknox_client = NoClient
    /\ app_pc = "prompt_sanitization"
    /\ sanitized_prompt = NA
    /\ session_id = NA
    /\ response = NA
    /\ sanitized_resp = NA
    /\ app_log = NoLog

\* prompt_sanitization(prompt) and the assignment of its result: what the script's state
\* is after it, given the environment's key and the outcome of scan_prompt
prompt_sanitization(key, remote) ==
    IF ~accuknox_enable
    THEN [pc |-> "completion", client |-> accuknox_client, sanitized_prompt |-> app_prompt,
          session_id |-> None, scanned |-> NoRemote, printed |-> <<>>]
    ELSE IF ~accuknox_client.live /\ key = Missing
    THEN [pc |-> "crashed", client |-> accuknox_client, sanitized_prompt |-> NA,
          session_id |-> NA, scanned |-> NoRemote, printed |-> <<>>]
    ELSE LET client == IF accuknox_client.live THEN accuknox_client
                       ELSE LLMDefenseClient(key, "r@accuknox.com")
             crash  == [pc |-> "crashed", client |-> client, sanitized_prompt |-> NA,
                        session_id |-> NA, scanned |-> remote, printed |-> <<>>]
         IN
         IF remote.kind = "raise" \/ ~Has(remote.d, "query_status")
         THEN crash
         ELSE IF remote.d.query_status = "BLOCK"
              THEN IF Has(remote.d, "sanitized_content") /\ Has(remote.d, "risk_score")
                   THEN [crash EXCEPT !.pc = "exited",
                            !.printed = <<Printed("prompt blocked",
                                                  remote.d.sanitized_content)>>]
                   ELSE crash
              ELSE IF Has(remote.d, "sanitized_content") /\ Has(remote.d, "session_id")
                   THEN [pc |-> "completion", client |-> client,
                         sanitized_prompt |-> remote.d.sanitized_content,
                         session_id |-> remote.d.session_id, scanned |-> remote,
                         printed |-> <<>>]
                   ELSE crash

PromptSanitization ==
    /\ app_pc = "prompt_sanitization"
    /\ \E key \in AppEnvKeys, remote \in RemoteOutcomes :
          LET r == prompt_sanitization(key, remote) IN
          /\ app_pc' = r.pc
          /\ accuknox_client' = r.client
          /\ sanitized_prompt' = r.sanitized_prompt
          /\ session_id' = r.session_id
          /\ app_log' = [app_log EXCEPT !.scan_prompt = r.scanned, !.output = r.printed]
    /\ UNCHANGED <<accuknox_enable, response, sanitized_resp, lib_vars>>

\* response = completion(model=..., messages=[..., {"role": "user", "content": sanitized_prompt}])
Completion ==
    /\ app_pc = "completion"
    /\ \E out \in CompletionOutcomes :
          /\ app_log' = [app_log EXCEPT !.completion = Append(@, sanitized_prompt)]
          /\ IF out = "<raise>"
             THEN app_pc' = "crashed" /\ UNCHANGED response
             ELSE app_pc' = "scan_response" /\ response' = out
    /\ UNCHANGED <<accuknox_enable, accuknox_client, sanitized_prompt, session_id,
                   sanitized_resp, lib_vars>>

\* the script's response scan: the value of sanitized_resp, or a crash
response_sanitization(remote) ==
    IF session_id # None
    THEN IF remote.kind = "raise" \/ ~Has(remote.d, "sanitized_content")
         THEN [pc |-> "crashed", sanitized_resp |-> NA, scanned |-> remote]
         ELSE [pc |-> "print", sanitized_resp |-> remote.d.sanitized_content,
               scanned |-> remote]
    ELSE [pc |-> "print", sanitized_resp |-> response, scanned |-> NoRemote]

ScanResponse ==
    /\ app_pc = "scan_response"
    /\ \E remote \in RemoteOutcomes :
          LET r == response_sanitization(remote) IN
          /\ app_pc' = r.pc
          /\ sanitized_resp' = r.sanitized_resp
          /\ app_log' = [app_log EXCEPT !.scan_response = r.scanned]
    /\ UNCHANGED <<accuknox_enable, accuknox_client, sanitized_prompt, session_id,
                   response, lib_vars>>

\* what the script prints in its CONTENT section
final_output == sanitized_resp

PrintResponse ==
    /\ app_pc = "print"
    /\ app_pc' = "done"
    /\ app_log' = [app_log EXCEPT !.output = Append(@, Printed("content", final_output))]
    /\ UNCHANGED <<accuknox_enable, accuknox_client, sanitized_prompt, session_id,
                   response, sanitized_resp, lib_vars>>

---------------------------------------------------------------------------
(* Specifications *)

\* the wrappers of firewall_util.py, called in any order by a single-threaded caller
Init ==
    /\ LibInit
    /\ accuknox_enable = TRUE
    /\ AppStart

Next ==
    \/ InitializeFirewallClient
    \/ GetSanitizedPrompt
    \/ ScanPromptReturns
    \/ GetSanitizedResponse
    \/ ScanResponseReturns

Spec == Init /\ [][Next]_vars

\* one run of app.py
InitApp ==
    /\ ENABLE_ACCUKNOX_FIREWALL = TRUE
    /\ STRICT_MODE = FALSE
    /\ firewall_client = NoClient
    /\ call = NoCall
    /\ accuknox_enable \in BOOLEAN
    /\ AppStart

NextApp ==
    \/ PromptSanitization
    \/ Completion
    \/ ScanResponse
    \/ PrintResponse

SpecApp == InitApp /\ [][NextApp]_vars

---------------------------------------------------------------------------
(* Properties *)

IsPrompt == call.op = "get_sanitized_prompt"

IsResponse == call.op = "get_sanitized_response"

IsScan == IsPrompt \/ IsResponse

IsInit == call.op = "initialize_firewall_client"

\* the call has ended, by a return or by an exception
Finished == call.status \in {"returned", "raised"}

Returned == call.status = "returned"

\* the remote call came back with a payload
GotPayload == call.remote.kind = "dict"

\* the text the call was asked to scan
InputText == IF IsPrompt THEN call.prompt ELSE call.response

\* C1 as stated: whenever the remote payload carries query_status BLOCK, whatever its
\* other fields (the error field included) hold, the call returns block = true and
\* fallback_response = STATIC_RESPONSE.
C1_BlockWhateverOtherFields ==
    (IsScan /\ Finished /\ GotPayload /\ call.remote.d.query_status = "BLOCK")
        => /\ Returned
           /\ call.result.block = TRUE
           /\ call.result.fallback_response = STATIC_RESPONSE

\* C1 amended: whenever the remote payload carries query_status BLOCK and no error key,
\* whatever sanitized_content, session_id and risk_score hold and under either strict
\* mode, the call returns block = true and fallback_response = STATIC_RESPONSE.
C1_BlockWithoutError ==
    (IsScan /\ Finished /\ GotPayload /\ call.remote.d.query_status = "BLOCK"
        /\ ~Has(call.remote.d, "error"))
        => /\ Returned
           /\ call.result.block = TRUE
           /\ call.result.fallback_response = STATIC_RESPONSE

C1_Witness ==
    /\ IsPrompt /\ Returned /\ GotPayload /\ ~STRICT_MODE
    /\ call.remote.d.query_status = "BLOCK"
    /\ ~Has(call.remote.d, "error")
    /\ call.remote.d.sanitized_content = "clean"
    /\ call.remote.d.risk_score = "{}"
    /\ call.result.block = TRUE
    /\ call.result.fallback_response = STATIC_RESPONSE

\* C2 as stated: with an active client, whenever the remote payload's query_status is
\* not BLOCK (or is missing), the call returns block = false and fallback_response = "",
\* under either strict mode.
C2_NonBlockPasses ==
    (IsScan /\ Finished /\ call.before.live /\ GotPayload
        /\ call.remote.d.query_status # "BLOCK")
        => /\ Returned
           /\ call.result.block = FALSE
           /\ call.result.fallback_response = ""

\* C2 amended: with an active client, whenever the remote payload has no error key and
\* its query_status is not BLOCK (or is missing), the call returns block = false and
\* fallback_response = "", under either strict mode.
C2_NonBlockWithoutErrorPasses ==
    (IsScan /\ Finished /\ call.before.live /\ GotPayload
        /\ call.remote.d.query_status # "BLOCK" /\ ~Has(call.remote.d, "error"))
        => /\ Returned
           /\ call.result.block = FALSE
           /\ call.result.fallback_response = ""

C2_Witness ==
    /\ IsPrompt /\ Returned /\ GotPayload /\ STRICT_MODE /\ call.before.live
    /\ call.remote.d.query_status = "block"
    /\ ~Has(call.remote.d, "error")
    /\ call.result.block = FALSE
    /\ call.result.fallback_response = ""

\* C3: every ScanResult with block = true that get_sanitized_prompt or
\* get_sanitized_response returns has fallback_response = STATIC_RESPONSE.
C3_BlockCarriesStaticResponse ==
    (IsScan /\ Returned /\ call.result.block = TRUE)
        => call.result.fallback_response = STATIC_RESPONSE

\* C4: with an active client and strict mode off, when the remote scan fails (the call
\* raises, or it returns an error payload) get_sanitized_prompt raises nothing and returns
\* block = false, the original prompt and no session id.
C4_PromptFailsOpen ==
    (IsPrompt /\ Finished /\ call.before.live /\ ~STRICT_MODE
        /\ (call.remote.kind = "raise" \/ (GotPayload /\ Has(call.remote.d, "error"))))
        => /\ Returned
           /\ call.result.block = FALSE
           /\ call.result.sanitized_content = call.prompt
           /\ call.result.session_id = None

\* C5 as stated: with an active client and strict mode on, when the remote scan reports
\* an error the call returns block = true with empty sanitized_content.
C5_StrictErrorEmptyContent ==
    (IsScan /\ Finished /\ call.before.live /\ STRICT_MODE
        /\ GotPayload /\ Has(call.remote.d, "error"))
        => /\ Returned
           /\ call.result.block = TRUE
           /\ call.result.sanitized_content = ""

\* C5 amended: with an active client and strict mode on, when the remote scan reports an
\* error the call returns block = true with sanitized_content equal to the original text
\* (the text is echoed back in the result).
C5_StrictErrorEchoesInput ==
    (IsScan /\ Finished /\ call.before.live /\ STRICT_MODE
        /\ GotPayload /\ Has(call.remote.d, "error"))
        => /\ Returned
           /\ call.result.block = TRUE
           /\ call.result.sanitized_content = InputText

C5_Witness ==
    /\ IsPrompt /\ Returned /\ call.before.live /\ STRICT_MODE
    /\ GotPayload /\ Has(call.remote.d, "error")
    /\ call.prompt = "hello"
    /\ call.result.block = TRUE
    /\ call.result.sanitized_content = "hello"

C7_InitRaisesOnlyStrictMissing ==
    IsInit
        => /\ Finished
           /\ (call.status = "raised" => (STRICT_MODE /\ ~Truthy(call.key)))
           /\ ((~ENABLE_ACCUKNOX_FIREWALL \/ ~Truthy(call.key)) => firewall_client = NoClient)

C7_Witness ==
    /\ IsInit /\ call.status = "raised"
    /\ call.before.live
    /\ firewall_client = NoClient

\* C8 as stated: once the handle has been created, no operation leaves it absent.
C8_HandleStaysLive ==
    [][firewall_client.live => firewall_client'.live]_vars

\* C8 amended: the handle is absent at process start; get_sanitized_prompt and
\* get_sanitized_response never change it; initialize_firewall_client replaces it
\* wholesale by a new handle when the firewall is enabled and a credential is available,
\* and resets it to absent otherwise (so a handle is lost only by a re-initialization
\* with the firewall disabled or the credential missing).
C8_HandleLifecycle ==
    /\ firewall_client = NoClient
    /\ [][/\ (firewall_client' # firewall_client => call'.op = "initialize_firewall_client")
          /\ ((call' # call /\ call'.op = "initialize_firewall_client")
                => firewall_client' =
                      IF ENABLE_ACCUKNOX_FIREWALL /\ Truthy(call'.key)
                      THEN LLMDefenseClient(call'.key, call'.user)
                      ELSE NoClient)]_vars

C8_Witness ==
    /\ IsInit /\ ENABLE_ACCUKNOX_FIREWALL
    /\ call.before.live
    /\ ~firewall_client.live

\* C9 as stated: get_sanitized_response returns the session id carried by the remote
\* response when the scan succeeds, and None when scanning was skipped or reported an
\* error, whatever session_id the caller passed.
C9_ResponseSessionLikePrompt ==
    (IsResponse /\ Returned)
        => call.result.session_id =
              IF GotPayload /\ ~Has(call.remote.d, "error")
              THEN Get(call.remote.d, "session_id")
              ELSE None

\* C9 amended: get_sanitized_response returns, on every path that returns, the
\* session_id the caller passed in (None when none was passed), whatever the remote
\* response carries; get_sanitized_prompt returns the remote response's session id when
\* the scan succeeds and None when scanning was skipped or reported an error.
C9_ResponseEchoesCallerSession ==
    /\ (IsResponse /\ Returned) => call.result.session_id = call.session_id
    /\ (IsPrompt /\ Returned)
          => call.result.session_id =
                IF GotPayload /\ ~Has(call.remote.d, "error")
                THEN Get(call.remote.d, "session_id")
                ELSE None

C9_Witness ==
    /\ IsResponse /\ Returned /\ GotPayload
    /\ ~Has(call.remote.d, "error")
    /\ call.remote.d.session_id = "s1"
    /\ call.session_id = "s0"
    /\ call.result.session_id = "s0"

\* C10: in a run of app.py a blocked prompt never reaches the completion call, the
\* sanitized_content of a response whose scan returned BLOCK is never printed as the
\* final output, and with the firewall enabled the completion call is made only after
\* the prompt scan has returned.
C10_BlockedNeverForwarded ==
    /\ (app_log.scan_prompt.kind = "dict" /\ app_log.scan_prompt.d.query_status = "BLOCK")
          => app_log.completion = <<>>
    /\ (accuknox_enable /\ app_log.scan_response.kind = "dict"
          /\ app_log.scan_response.d.query_status = "BLOCK")
          => \A i \in 1..Len(app_log.output) :
                ~(/\ app_log.output[i].what = "content"
                  /\ app_log.output[i].text = app_log.scan_response.d.sanitized_content)
    /\ (accuknox_enable /\ app_log.completion # <<>>) => app_log.scan_prompt.kind = "dict"

====
